---- MODULE Spec2Model ----
(***************************************************************************)
(* The secret-scanning GitHub action (src/action.py) as a state machine.   *)
(*                                                                         *)
(* One run of main(): Context.create() reads the environment and the event *)
(* file, Worker.run() polls the webhook until GitHubSecretScanner.execute  *)
(* returns or raises something other than Delay, or until the deadline has *)
(* passed, and main() maps the outcome to one run-level annotation and an  *)
(* exit code.                                                              *)
(*                                                                         *)
(* Time is counted in whole seconds.  Only the two blocking calls take     *)
(* time: urlopen (0..MaxPollDur) and time.sleep (delay_seconds).           *)
(* An exception is represented by the name of its class.                   *)
(***************************************************************************)
EXTENDS Integers, Sequences, FiniteSets, TLC

\* Bounds of the model.
MaxTimeout == 5
MaxPollDur == 2
MaxDetails == 2
MaxMissing == 1

\* src/action.py:13-14
DEFAULT_DELAY_SECONDS == 2
DEFAULT_TIMEOUT_SECONDS == 120

\* Python's None, where a string is expected (os.getenv of an unset variable).
None == "None"

VARIABLES
    env,        \* os.environ: a function from the names that are set to their values
    event,      \* the file GITHUB_EVENT_PATH names
    pc,         \* "main" | "loop" | "sleep" | "done"; "print" | "returned" | "KeyError" in PrintSpec
    now,        \* time.time()
    ctx,        \* the Context record, <<>> before Context.create() returned
    deadline,   \* Worker.run's local deadline
    polls,      \* number of urlopen calls made
    sleeps,     \* number of time.sleep calls completed
    pollStart,  \* the time the latest urlopen call began
    replies,    \* what each urlopen call met, in order
    sent,       \* the set of <<url, payload>> handed to urlopen
    out,        \* the lines printed on stdout
    exit,       \* the exit codes the process ended with (at most one)
    secrets     \* the argument of a direct print_secrets call, <<>> in a run of main

vars == <<env, event, pc, now, ctx, deadline, polls, sleeps, pollStart,
          replies, sent, out, exit, secrets>>

----------------------------------------------------------------------------
(* The environment *)

RequiredVars == {"GITHUB_EVENT_PATH", "GITHUB_RUN_ID", "GITHUB_RUN_NUMBER",
                 "GITHUB_HEAD_REF", "GITHUB_BASE_REF", "INPUT_TOKEN",
                 "INPUT_WEBHOOK_URL"}

\* The values of the test environment (src/tests/test_action.py:12-24).
EnvValue(name) ==
    CASE name = "GITHUB_EVENT_PATH" -> "/tmp/event.json"
      [] name = "GITHUB_RUN_ID" -> "11"
      [] name = "GITHUB_RUN_NUMBER" -> "22"
      [] name = "GITHUB_HEAD_REF" -> "my-branch"
      [] name = "GITHUB_BASE_REF" -> "master"
      [] name = "INPUT_TOKEN" -> "token"
      [] name = "INPUT_WEBHOOK_URL" -> "http://localhost/secret_scanning"

\* Values of INPUT_TIMEOUT_SECONDS: the integers -1..MaxTimeout as the action
\* passes them (strings), and one string float() rejects.
TimeoutStrings == {ToString(n) : n \in -1..MaxTimeout} \cup {"abc"}

MakeEnv(missing, timeout) ==
    [name \in (RequiredVars \ missing) \cup {"INPUT_TIMEOUT_SECONDS"} |->
        IF name = "INPUT_TIMEOUT_SECONDS" THEN timeout ELSE EnvValue(name)]

FullDoc == [repository |-> [full_name |-> "my/repository"],
            pull_request |-> [head |-> [sha |-> "my_sha"]]]
\* The event of a push: no pull_request.
PushDoc == [repository |-> [full_name |-> "my/repository"]]

GoodEvent == [kind |-> "json", doc |-> FullDoc]
BadEvents == {[kind |-> "absent"], [kind |-> "notjson"],
              [kind |-> "json", doc |-> PushDoc]}

\* The environments a run is started in: the complete one with every timeout,
\* and, with a timeout of one second, those lacking up to MaxMissing variables
\* and those with a bad event file. INPUT_TIMEOUT_SECONDS is set in all of
\* them: unset, it is the value DEFAULT_TIMEOUT_SECONDS, beyond MaxTimeout.
Environments ==
    {<<MakeEnv({}, t), GoodEvent>> : t \in TimeoutStrings}
    \cup {<<MakeEnv(m, "1"), GoodEvent>> :
            m \in {s \in SUBSET RequiredVars : Cardinality(s) <= MaxMissing}}
    \cup {<<MakeEnv({}, "1"), e>> : e \in BadEvents}

Uuids == {"uuid-a", "uuid-b"}

\* os.getenv(name) and os.getenv(name, default)
Getenv(e, name) == IF name \in DOMAIN e THEN e[name] ELSE None

\* float(x) of a string: the number it denotes, or ValueError.
ParseFloat(s) ==
    IF \E n \in -1..MaxTimeout : ToString(n) = s
    THEN [ok |-> TRUE, val |-> CHOOSE n \in -1..MaxTimeout : ToString(n) = s]
    ELSE [ok |-> FALSE, val |-> 0]

\* Context.create(): [raised, ctx]; raised = None when it returns ctx.
ContextCreate(e, ev, uuid) ==
    LET path == Getenv(e, "GITHUB_EVENT_PATH")
        tmo == IF "INPUT_TIMEOUT_SECONDS" \in DOMAIN e
               THEN ParseFloat(e["INPUT_TIMEOUT_SECONDS"])
               ELSE [ok |-> TRUE, val |-> DEFAULT_TIMEOUT_SECONDS]
        Fail(x) == [raised |-> x, ctx |-> <<>>]
    IN  IF path = None THEN Fail("TypeError")
        ELSE IF ev.kind = "absent" THEN Fail("FileNotFoundError")
        ELSE IF ev.kind = "notjson" THEN Fail("JSONDecodeError")
        ELSE IF "repository" \notin DOMAIN ev.doc THEN Fail("KeyError")
        ELSE IF "full_name" \notin DOMAIN ev.doc.repository THEN Fail("KeyError")
        ELSE IF "pull_request" \notin DOMAIN ev.doc THEN Fail("KeyError")
        ELSE IF ~tmo.ok THEN Fail("ValueError")
        ELSE [raised |-> None,
              ctx |-> [action_unique_id |-> uuid,
                       github_run_id |-> Getenv(e, "GITHUB_RUN_ID"),
                       github_run_number |-> Getenv(e, "GITHUB_RUN_NUMBER"),
                       github_head_ref |-> Getenv(e, "GITHUB_HEAD_REF"),
                       github_base_ref |-> Getenv(e, "GITHUB_BASE_REF"),
                       github_token |-> Getenv(e, "INPUT_TOKEN"),
                       github_sha |-> ev.doc.pull_request.head.sha,
                       github_repository |-> ev.doc.repository.full_name,
                       input_webhook_url |-> Getenv(e, "INPUT_WEBHOOK_URL"),
                       input_timeout_seconds |-> tmo.val]]

----------------------------------------------------------------------------
(* What the webhook can answer *)

Finding(valid, path) ==
    [is_valid |-> valid, file_path |-> path, secret_value |-> "***",
     secret_type |-> "regular"]

\* Entries of `details`: well-formed findings of each classification, and
\* entries that lack a key print_secrets subscripts.
GoodFindings == {Finding("IS_SECRET_VALID_UNSPECIFIED", "u.json"),
                 Finding("IS_SECRET_VALID_YES", "a.json"),
                 Finding("IS_SECRET_VALID_NO", "b.json"),
                 Finding("IS_SECRET_VALID_MAYBE", "c.json")}
BadFindings == {[file_path |-> "d.json", secret_value |-> "***",
                 secret_type |-> "regular"],
                [is_valid |-> "IS_SECRET_VALID_YES", file_path |-> "e.json",
                 secret_value |-> "***"]}
Findings == GoodFindings \cup BadFindings

DetailsSeqs == UNION {[1..n -> Findings] : n \in 0..MaxDetails}

ResolvedStatuses == {"failed", "valid", "scanned"}
Statuses == ResolvedStatuses \cup {"just_created"}

\* Parsed JSON bodies: objects with or without each of the three keys.
CleanBodies ==
    {[error |-> "", status |-> s, details |-> d] :
        s \in ResolvedStatuses, d \in DetailsSeqs}
    \cup {[error |-> "", status |-> s] : s \in ResolvedStatuses}
PendingBodies ==
    {[error |-> "", status |-> "just_created"],
     [error |-> "", status |-> "just_created",
      details |-> <<Finding("IS_SECRET_VALID_YES", "a.json")>>]}
ErrorBodies ==
    {[error |-> "boom", status |-> s] : s \in Statuses}
    \cup {[error |-> "boom"],
          [error |-> "boom", status |-> "failed",
           details |-> <<Finding("IS_SECRET_VALID_YES", "a.json")>>]}
ShapelessBodies == {[status |-> "valid"], [error |-> ""]}
JsonBodies == CleanBodies \cup PendingBodies \cup ErrorBodies \cup ShapelessBodies

\* Bodies sent along with a status code other than 200.
OtherCodeBodies ==
    {[error |-> "", status |-> "valid"],
     [error |-> "", status |-> "just_created"],
     [error |-> "", status |-> "failed",
      details |-> <<Finding("IS_SECRET_VALID_YES", "a.json")>>]}

\* 201: a 2xx urlopen returns; 404, 500: urlopen raises HTTPError. A redirect
\* is followed inside urlopen: the reply is what the one call ends with.
OtherCodes == {201, 404, 500}

\* What one urlopen call can meet: a network failure raised as the named
\* exception (URLError: DNS failure, connection refused, connect timeout;
\* TimeoutError: ETIMEDOUT while the response is read, which do_open does not
\* wrap), or an HTTP response.
NetFailures == {[kind |-> "net", exc |-> "URLError"],
                [kind |-> "net", exc |-> "TimeoutError"]}
HttpReplies ==
    {[kind |-> "http", code |-> 200, json |-> TRUE, body |-> b] : b \in JsonBodies}
    \cup {[kind |-> "http", code |-> 200, json |-> FALSE]}
    \cup {[kind |-> "http", code |-> c, json |-> TRUE, body |-> b] :
            c \in OtherCodes, b \in OtherCodeBodies}
    \cup {[kind |-> "http", code |-> c, json |-> FALSE] : c \in OtherCodes}
Replies == NetFailures \cup HttpReplies

----------------------------------------------------------------------------
(* Console lines *)

NoSecretsLine == [sev |-> "notice", text |-> "no secrets found"]
TimeoutLine == [sev |-> "error", text |-> "action timeout!"]
FoundValidLine == [sev |-> "error", text |-> "found valid secrets on code!"]
FailedLine == [sev |-> "error", text |-> "action failed!"]

\* A run-level annotation has no file=, a finding annotation has one.
IsFindingLine(line) == "file" \in DOMAIN line

\* Mutant: only IS_SECRET_VALID_NO is a notice.
Severity_UnspecifiedIsUnknown(valid) ==
    IF valid \in {"IS_SECRET_VALID_NO"}
    THEN [sev |-> "notice", text |-> "found invalid secret"]
    ELSE IF valid \in {"IS_SECRET_VALID_YES"}
    THEN [sev |-> "error", text |-> "found valid secret"]
    ELSE [sev |-> "warning", text |-> "found unknown secret"]
\* print_secrets, the branch taken for one is_valid value: severity and wording.
Severity(valid) ==
    IF valid \in {"IS_SECRET_VALID_UNSPECIFIED", "IS_SECRET_VALID_NO"}
    THEN [sev |-> "notice", text |-> "found invalid secret"]
    ELSE IF valid \in {"IS_SECRET_VALID_YES"}
    THEN [sev |-> "error", text |-> "found valid secret"]
    ELSE [sev |-> "warning", text |-> "found unknown secret"]

\* The keys one iteration of print_secrets subscripts.
FindingKeys == {"is_valid", "file_path", "secret_value", "secret_type"}

SecretLine(secret) ==
    [sev |-> Severity(secret.is_valid).sev, file |-> secret.file_path,
     text |-> Severity(secret.is_valid).text, value |-> secret.secret_value,
     type |-> secret.secret_type]

\* print_secrets(details): the lines printed, and the exception that ended it
\* (None when the loop ran to its end). A missing key raises KeyError before
\* that entry's line is printed.
RECURSIVE PrintFrom(_, _, _)
PrintFrom(details, i, lines) ==
    IF i > Len(details) THEN [lines |-> lines, raised |-> None]
    ELSE IF ~(FindingKeys \subseteq DOMAIN details[i])
    THEN [lines |-> lines, raised |-> "KeyError"]
    ELSE PrintFrom(details, i + 1, Append(lines, SecretLine(details[i])))

\* Mutant: the loop is left after its first iteration.
print_secrets_FirstOnly(details) ==
    PrintFrom(SubSeq(details, 1, IF Len(details) > 0 THEN 1 ELSE 0), 1, <<>>)
print_secrets(details) == PrintFrom(details, 1, <<>>)

----------------------------------------------------------------------------
(* One poll *)

\* Mutant: the correlation id is made anew whenever the payload is read.
github_details_FreshId(c) ==
    [action_unique_id |-> IF polls % 2 = 0 THEN "uuid-a" ELSE "uuid-b",
     github_run_id |-> c.github_run_id,
     github_run_number |-> c.github_run_number,
     github_head_ref |-> c.github_head_ref,
     github_base_ref |-> c.github_base_ref,
     github_token |-> c.github_token,
     github_sha |-> c.github_sha,
     github_repository |-> c.github_repository]
\* GitHubSecretScanner.github_details
github_details(c) ==
    [action_unique_id |-> c.action_unique_id,
     github_run_id |-> c.github_run_id,
     github_run_number |-> c.github_run_number,
     github_head_ref |-> c.github_head_ref,
     github_base_ref |-> c.github_base_ref,
     github_token |-> c.github_token,
     github_sha |-> c.github_sha,
     github_repository |-> c.github_repository]

\* Requests.post(url, json) meeting reply r: [raised, called, response].
\* Request() rejects a url without a scheme (None, unset) before urlopen is
\* called; urlopen raises the network failure, or HTTPError for a status
\* outside 2xx.
post(url, r) ==
    IF url = None
    THEN [raised |-> "ValueError", called |-> FALSE, response |-> r]
    ELSE IF r.kind = "net"
    THEN [raised |-> r.exc, called |-> TRUE, response |-> r]
    ELSE IF ~(r.code \in 200..299)
    THEN [raised |-> "HTTPError", called |-> TRUE, response |-> r]
    ELSE [raised |-> None, called |-> TRUE, response |-> r]

\* Mutant: the default is returned whether or not the key is there.
GetDetails_AlwaysDefault(result) == <<>>
\* result.get("details", [])
GetDetails(result) == IF "details" \in DOMAIN result THEN result.details ELSE <<>>

\* Mutant: only 4xx and 5xx are taken for invalid status codes.
InvalidStatusCode_Only4xx5xx(code) == code >= 400
\* line 113: response.status_code != 200
InvalidStatusCode(code) == code # 200

\* Mutant: the error field is not looked at.
WebhookFailed_Ignored(error) == FALSE
\* line 118: result["error"] != ""
WebhookFailed(error) == error # ""

\* Mutant: no status is taken as failed.
IsFailed_Never(status) == FALSE
\* line 121: result["status"] == "failed"
IsFailed(status) == status = "failed"

\* Mutant: only the status "valid" ends the polling.
IsResolved_OnlyValid(status) == status = "valid"
\* line 125: result["status"] != "just_created"
IsResolved(status) == status # "just_created"

\* Mutant: the status is looked at before the error field.
interpret_StatusFirst(response) ==
    LET result == response.body
        printed == print_secrets(GetDetails(result))
    IN  IF InvalidStatusCode(response.code)
        THEN [raised |-> "Exception", lines |-> <<>>]
        ELSE IF ~response.json THEN [raised |-> "JSONDecodeError", lines |-> <<>>]
        ELSE IF "status" \notin DOMAIN result THEN [raised |-> "KeyError", lines |-> <<>>]
        ELSE IF IsFailed(result.status)
        THEN [raised |-> IF printed.raised # None THEN printed.raised
                         ELSE "ValidSecretsException",
              lines |-> printed.lines]
        ELSE IF "error" \notin DOMAIN result THEN [raised |-> "KeyError", lines |-> <<>>]
        ELSE IF WebhookFailed(result.error)
        THEN [raised |-> "Exception", lines |-> <<>>]
        ELSE IF IsResolved(result.status)
        THEN [raised |-> printed.raised, lines |-> printed.lines]
        ELSE [raised |-> "Delay", lines |-> <<>>]
\* The interpretation of a response, lines 113-129: [raised, lines];
\* raised = None when execute returns.
interpret(response) ==
    LET result == response.body
        printed == print_secrets(GetDetails(result))
    IN  IF InvalidStatusCode(response.code)
        THEN [raised |-> "Exception", lines |-> <<>>]
        ELSE IF ~response.json THEN [raised |-> "JSONDecodeError", lines |-> <<>>]
        ELSE IF "error" \notin DOMAIN result THEN [raised |-> "KeyError", lines |-> <<>>]
        ELSE IF WebhookFailed(result.error)
        THEN [raised |-> "Exception", lines |-> <<>>]
        ELSE IF "status" \notin DOMAIN result THEN [raised |-> "KeyError", lines |-> <<>>]
        ELSE IF IsFailed(result.status)
        THEN [raised |-> IF printed.raised # None THEN printed.raised
                         ELSE "ValidSecretsException",
              lines |-> printed.lines]
        ELSE IF IsResolved(result.status)
        THEN [raised |-> printed.raised, lines |-> printed.lines]
        ELSE [raised |-> "Delay", lines |-> <<>>]

\* GitHubSecretScanner.execute() meeting reply r: [raised, called, lines].
execute(c, r) ==
    LET p == post(c.input_webhook_url, r)
    IN  IF p.raised # None
        THEN [raised |-> p.raised, called |-> p.called, lines |-> <<>>]
        ELSE [raised |-> interpret(p.response).raised, called |-> TRUE,
              lines |-> interpret(p.response).lines]

----------------------------------------------------------------------------
(* main() *)

\* Mutant: no clause for ValidSecretsException, which the last clause takes.
Report_NoValidSecretsClause(raised) ==
    IF raised = None THEN [line |-> NoSecretsLine, code |-> 0]
    ELSE IF raised = "TimeoutError" THEN [line |-> TimeoutLine, code |-> 1]
    ELSE [line |-> FailedLine, code |-> 1]
\* Mutant: the TimeoutError clause prints and returns without sys.exit(1).
Report_TimeoutReturns(raised) ==
    IF raised = None THEN [line |-> NoSecretsLine, code |-> 0]
    ELSE IF raised = "TimeoutError" THEN [line |-> TimeoutLine, code |-> 0]
    ELSE IF raised = "ValidSecretsException" THEN [line |-> FoundValidLine, code |-> 1]
    ELSE [line |-> FailedLine, code |-> 1]
\* The except clauses of main, in their order: the run-level line and the
\* exit code for what run() raised (None: it returned).
Report(raised) ==
    IF raised = None THEN [line |-> NoSecretsLine, code |-> 0]
    ELSE IF raised = "TimeoutError" THEN [line |-> TimeoutLine, code |-> 1]
    ELSE IF raised = "ValidSecretsException" THEN [line |-> FoundValidLine, code |-> 1]
    ELSE [line |-> FailedLine, code |-> 1]

\* main() from the point where the try block is left.
Finish(raised, lines) ==
    /\ out' = (out \o lines) \o <<Report(raised).line>>
    /\ exit' = Append(exit, Report(raised).code)
    /\ pc' = "done"

\* Mutant: the deadline itself still counts as in time.
BeforeDeadline_Inclusive(t, dl) == t <= dl
\* Worker.run line 60: time.time() < deadline
BeforeDeadline(t, dl) == t < dl

Init ==
    /\ \E e \in Environments : env = e[1] /\ event = e[2]
    /\ pc = "main"
    /\ now = 0
    /\ ctx = <<>>
    /\ deadline = 0
    /\ polls = 0
    /\ sleeps = 0
    /\ pollStart = 0
    /\ replies = <<>>
    /\ sent = {}
    /\ out = <<>>
    /\ exit = <<>>
    /\ secrets = <<>>

\* main lines 174-176 up to Worker.run line 59: Context.create(), the
\* scanner's construction, deadline = time.time() + timeout_seconds.
Start ==
    /\ pc = "main"
    /\ \E uuid \in Uuids :
        LET made == ContextCreate(env, event, uuid)
        IN  IF made.raised # None
            THEN /\ Finish(made.raised, <<>>)
                 /\ UNCHANGED <<ctx, deadline>>
            ELSE /\ ctx' = made.ctx
                 /\ deadline' = now + made.ctx.input_timeout_seconds
                 /\ pc' = "loop"
                 /\ UNCHANGED <<out, exit>>
    /\ UNCHANGED <<secrets, env, event, now, polls, sleeps, pollStart, replies, sent>>

\* Worker.run line 60 false, line 66: raise TimeoutError(), caught by main.
Timeout ==
    /\ pc = "loop"
    /\ ~BeforeDeadline(now, deadline)
    /\ Finish("TimeoutError", <<>>)
    /\ UNCHANGED <<secrets, env, event, now, ctx, deadline, polls, sleeps, pollStart,
                   replies, sent>>

\* Worker.run line 60 true, lines 61-64: one execute(), taking d seconds in
\* urlopen and meeting reply r; Delay leads to the sleep, anything else
\* leaves run() and is reported by main.
Poll ==
    /\ pc = "loop"
    /\ BeforeDeadline(now, deadline)
    /\ \E r \in Replies, d \in 0..MaxPollDur :
        LET x == execute(ctx, r)
        IN  /\ IF x.called
               THEN /\ polls' = polls + 1
                    /\ pollStart' = now
                    /\ now' = now + d
                    /\ replies' = Append(replies, r)
                    /\ sent' = sent \cup {<<ctx.input_webhook_url, github_details(ctx)>>}
               ELSE UNCHANGED <<polls, pollStart, now, replies, sent>>
            /\ IF x.raised = "Delay"
               THEN /\ pc' = "sleep"
                    /\ UNCHANGED <<out, exit>>
               ELSE Finish(x.raised, x.lines)
    /\ UNCHANGED <<secrets, env, event, ctx, deadline, sleeps>>

\* Mutant: the sleep is cut short at the deadline.
Sleep_CutAtDeadline ==
    /\ pc = "sleep"
    /\ now' = IF now < deadline /\ deadline < now + DEFAULT_DELAY_SECONDS
              THEN deadline ELSE now + DEFAULT_DELAY_SECONDS
    /\ sleeps' = sleeps + 1
    /\ pc' = "loop"
    /\ UNCHANGED <<secrets, env, event, ctx, deadline, polls, pollStart, replies,
                   sent, out, exit>>
\* Mutant: the delay grows with every sleep.
Sleep_Backoff ==
    /\ pc = "sleep"
    /\ now' = now + DEFAULT_DELAY_SECONDS * (sleeps + 1)
    /\ sleeps' = sleeps + 1
    /\ pc' = "loop"
    /\ UNCHANGED <<secrets, env, event, ctx, deadline, polls, pollStart, replies,
                   sent, out, exit>>
\* Mutant: the sleep lasts one second whatever delay_seconds is.
Sleep_OneSecond ==
    /\ pc = "sleep"
    /\ now' = now + 1
    /\ sleeps' = sleeps + 1
    /\ pc' = "loop"
    /\ UNCHANGED <<secrets, env, event, ctx, deadline, polls, pollStart, replies,
                   sent, out, exit>>
\* Worker.run line 65: time.sleep(self.delay_seconds), then back to line 60.
Sleep ==
    /\ pc = "sleep"
    /\ now' = now + DEFAULT_DELAY_SECONDS
    /\ sleeps' = sleeps + 1
    /\ pc' = "loop"
    /\ UNCHANGED <<secrets, env, event, ctx, deadline, polls, pollStart, replies,
                   sent, out, exit>>

Next == Start \/ Timeout \/ Poll \/ Sleep

Spec == Init /\ [][Next]_vars

----------------------------------------------------------------------------
(* print_secrets called on its own *)

\* is_valid values: the three the code names, and others a webhook could send
\* (another classification, lower case, the empty string, JSON null).
PrintValues == {"IS_SECRET_VALID_UNSPECIFIED", "IS_SECRET_VALID_NO",
                "IS_SECRET_VALID_YES", "IS_SECRET_VALID_MAYBE",
                "is_secret_valid_yes", "", None}
PrintPaths == {"a.json", "b.json"}
PrintFindings ==
    {Finding(v, p) : v \in PrintValues, p \in PrintPaths} \cup BadFindings
PrintInputs == UNION {[1..n -> PrintFindings] : n \in 0..MaxDetails}

PrintInit ==
    /\ secrets \in PrintInputs
    /\ pc = "print"
    /\ env = <<>>
    /\ event = <<>>
    /\ now = 0
    /\ ctx = <<>>
    /\ deadline = 0
    /\ polls = 0
    /\ sleeps = 0
    /\ pollStart = 0
    /\ replies = <<>>
    /\ sent = {}
    /\ out = <<>>
    /\ exit = <<>>

\* GitHubSecretScanner.print_secrets(secrets), lines 94-108: the lines it
\* printed, and whether it returned or raised.
PrintSecrets ==
    /\ pc = "print"
    /\ LET r == print_secrets(secrets)
       IN  /\ out' = r.lines
           /\ pc' = IF r.raised = None THEN "returned" ELSE r.raised
    /\ UNCHANGED <<secrets, env, event, now, ctx, deadline, polls, sleeps,
                   pollStart, replies, sent, exit>>

PrintNext == PrintSecrets

PrintSpec == PrintInit /\ [][PrintNext]_vars

----------------------------------------------------------------------------
(* Vocabulary of the properties: what an answer is, read off the reply alone *)

Last(q) == q[Len(q)]

HasBody(r) == r.kind = "http" /\ r.code = 200 /\ r.json
EmptyError(r) == HasBody(r) /\ "error" \in DOMAIN r.body /\ r.body.error = ""
HasStatus(r) == EmptyError(r) /\ "status" \in DOMAIN r.body
PendingAnswer(r) == HasStatus(r) /\ r.body.status = "just_created"
ResolvedAnswer(r) == HasStatus(r) /\ r.body.status # "just_created"
FailedAnswer(r) == HasStatus(r) /\ r.body.status = "failed"
CleanAnswer(r) == HasStatus(r) /\ r.body.status \notin {"failed", "just_created"}

DetailsOf(r) == IF "details" \in DOMAIN r.body THEN r.body.details ELSE <<>>
WellFormed(f) ==
    {"is_valid", "file_path", "secret_value", "secret_type"} \subseteq DOMAIN f
AllWellFormed(r) == \A j \in 1..Len(DetailsOf(r)) : WellFormed(DetailsOf(r)[j])
\* The number of entries before the first one that lacks a field.
GoodPrefix(r) ==
    IF AllWellFormed(r) THEN Len(DetailsOf(r))
    ELSE (CHOOSE j \in 1..Len(DetailsOf(r)) :
            /\ ~WellFormed(DetailsOf(r)[j])
            /\ \A h \in 1..(j - 1) : WellFormed(DetailsOf(r)[h])) - 1

FindingLines(o) == SelectSeq(o, IsFindingLine)
\* The finding annotations of o are those of the first n entries of d, in order.
LinesMatch(o, d, n) ==
    /\ Len(FindingLines(o)) = n
    /\ \A j \in 1..n :
        /\ FindingLines(o)[j].file = d[j].file_path
        /\ FindingLines(o)[j].value = d[j].secret_value
        /\ FindingLines(o)[j].type = d[j].secret_type

\* The first k answers were pending and answer k+1 is resolved.
ResolvedAfter(k) ==
    /\ k + 1 <= Len(replies)
    /\ \A i \in 1..k : PendingAnswer(replies[i])
    /\ ResolvedAnswer(replies[k + 1])

\* The run ended in Worker.run's TimeoutError with every poll answered pending.
DeadlineElapsedPending ==
    /\ pc = "done"
    /\ DOMAIN ctx # {}
    /\ ~(now < deadline)
    /\ \A i \in 1..Len(replies) : PendingAnswer(replies[i])

----------------------------------------------------------------------------
(* C1 *)

----------------------------------------------------------------------------
(* C2 *)

\* C2 as stated: when every poll is answered pending until the deadline has
\* elapsed, the run exits 1 with the timeout annotation after at least one
\* poll, for every timeout_seconds.
C2_AtLeastOnePoll ==
    DeadlineElapsedPending =>
        /\ exit = <<1>>
        /\ out = <<TimeoutLine>>
        /\ polls >= 1

\* C2 amended: when every poll is answered pending until the deadline has
\* elapsed, the run exits 1 and prints the timeout annotation alone; it has
\* polled at least once exactly when timeout_seconds > 0.
C2_TimeoutAfterPendings ==
    DeadlineElapsedPending =>
        /\ exit = <<1>>
        /\ out = <<TimeoutLine>>
        /\ (polls >= 1 <=> ctx.input_timeout_seconds > 0)

\* A run that timed out after two pending answers.
C2_Witness == DeadlineElapsedPending /\ polls = 2 /\ out = <<TimeoutLine>>

----------------------------------------------------------------------------
(* C3, C4 *)

\* C3: a response whose status code is not 200, whatever its body, is the
\* last poll of the run, and the run has ended with exit code 1.
C3_Non200IsFatal ==
    \A i \in 1..Len(replies) :
        (replies[i].kind = "http" /\ replies[i].code # 200) =>
            /\ i = Len(replies)
            /\ polls = i
            /\ pc = "done"
            /\ exit = <<1>>

\* A 201 whose body reads as a clean scan, met after a pending answer.
C3_Witness ==
    /\ Len(replies) = 2
    /\ replies[2].kind = "http" /\ replies[2].code = 201 /\ replies[2].json
    /\ replies[2].body.status = "valid"
    /\ exit = <<1>>

\* C4: a 200 response whose error field is not empty, whatever its status
\* field, is the last poll of the run, and the run has ended with exit code 1.
C4_ErrorFieldIsFatal ==
    \A i \in 1..Len(replies) :
        (/\ HasBody(replies[i])
         /\ "error" \in DOMAIN replies[i].body
         /\ replies[i].body.error # "") =>
            /\ i = Len(replies)
            /\ polls = i
            /\ pc = "done"
            /\ exit = <<1>>

\* An error answer whose status is "just_created", met after a pending answer.
C4_Witness ==
    /\ Len(replies) = 2
    /\ HasBody(replies[2])
    /\ "error" \in DOMAIN replies[2].body /\ replies[2].body.error = "boom"
    /\ "status" \in DOMAIN replies[2].body
    /\ replies[2].body.status = "just_created"
    /\ exit = <<1>>

----------------------------------------------------------------------------
(* C5, C6, C7 *)

\* C5 as stated: an answer with status "failed" is the last poll, the run has
\* ended with exit code 1, and one annotation was printed per entry of
\* details, in their order.
C5_OneLinePerEntry ==
    \A i \in 1..Len(replies) :
        FailedAnswer(replies[i]) =>
            /\ i = Len(replies)
            /\ pc = "done"
            /\ exit = <<1>>
            /\ LinesMatch(out, DetailsOf(replies[i]), Len(DetailsOf(replies[i])))

\* C5 amended: an answer with status "failed" is the last poll and the run has
\* ended with exit code 1; one annotation was printed, in order, per entry of
\* details up to the first entry that lacks a field (all of them when none
\* does), and none for the entries from there on.
C5_FailedPrintsFindings ==
    \A i \in 1..Len(replies) :
        FailedAnswer(replies[i]) =>
            /\ i = Len(replies)
            /\ pc = "done"
            /\ exit = <<1>>
            /\ LinesMatch(out, DetailsOf(replies[i]), GoodPrefix(replies[i]))

\* A failed answer with two complete findings, both printed.
C5_Witness ==
    /\ pc = "done"
    /\ Len(replies) > 0
    /\ FailedAnswer(Last(replies))
    /\ AllWellFormed(Last(replies))
    /\ Len(DetailsOf(Last(replies))) = 2
    /\ Len(FindingLines(out)) = 2
    /\ FindingLines(out)[1].file # FindingLines(out)[2].file

ValidSecretsFound ==
    /\ pc = "done"
    /\ Len(replies) > 0
    /\ FailedAnswer(Last(replies))
    /\ AllWellFormed(Last(replies))

\* C7 as stated: on valid-secrets-found the output consists of the finding
\* annotations only, and the exit code is 1.
C7_NothingFurtherPrinted ==
    ValidSecretsFound =>
        /\ \A j \in 1..Len(out) : IsFindingLine(out[j])
        /\ exit = <<1>>

\* C7 amended: on valid-secrets-found the output is the finding annotations
\* followed by exactly one further line, "::error::found valid secrets on
\* code!", and the exit code is 1.
C7_FindingsThenFoundValid ==
    ValidSecretsFound =>
        /\ Len(out) = Len(DetailsOf(Last(replies))) + 1
        /\ \A j \in 1..(Len(out) - 1) : IsFindingLine(out[j])
        /\ Last(out) = FoundValidLine
        /\ exit = <<1>>

\* Valid secrets found with one finding: two lines printed.
C7_Witness ==
    /\ ValidSecretsFound
    /\ Len(DetailsOf(Last(replies))) = 1
    /\ Len(out) = 2

----------------------------------------------------------------------------
(* C8 *)

----------------------------------------------------------------------------
(* C9, C10 *)

\* A required variable is unset, or the event file is absent or malformed.
BadConfiguration ==
    \/ ~(RequiredVars \subseteq DOMAIN env)
    \/ event.kind # "json"
    \/ "pull_request" \notin DOMAIN event.doc

\* C9: with a required variable unset, or the event file absent or
\* malformed, the run ends without a poll, with the generic failure
\* annotation and exit code 1.
C9_FailsAtStartup ==
    (pc = "done" /\ BadConfiguration) =>
        /\ polls = 0
        /\ out = <<FailedLine>>
        /\ exit = <<1>>

\* C10: a network failure of a poll's POST is the last poll and ends the run
\* with the generic failure annotation and exit code 1; the timeout
\* annotation is printed only when the deadline elapsed with every poll
\* answered pending.
C10_NetworkFailureIsGeneric ==
    /\ \A i \in 1..Len(replies) :
        replies[i].kind = "net" =>
            /\ i = Len(replies)
            /\ pc = "done"
            /\ out = <<FailedLine>>
            /\ exit = <<1>>
    /\ (\E j \in 1..Len(out) : out[j] = TimeoutLine) => DeadlineElapsedPending

----------------------------------------------------------------------------
(* C11 *)

PayloadFields == {"action_unique_id", "github_run_id", "github_run_number",
                  "github_head_ref", "github_base_ref", "github_token",
                  "github_sha", "github_repository"}

\* C11: all the POSTs of a run carry one and the same payload, of eight
\* fields, whose action_unique_id is the one made at startup, and go to one
\* and the same url, the configured one.
C11_SamePayloadEveryPoll ==
    /\ Cardinality(sent) <= 1
    /\ polls > 0 =>
        /\ Cardinality(sent) = 1
        /\ \A s \in sent :
            /\ s[1] = ctx.input_webhook_url
            /\ DOMAIN s[2] = PayloadFields
            /\ s[2].action_unique_id = ctx.action_unique_id
            /\ s[2].action_unique_id \in Uuids

\* Three polls were made, all with the one payload.
C11_Witness == polls = 3 /\ Cardinality(sent) = 1

----------------------------------------------------------------------------
(* C12 *)

\* The answer's error field is set and not empty.
ErrorAnswer(r) ==
    HasBody(r) /\ "error" \in DOMAIN r.body /\ r.body.error # ""

\* C12: the status code is looked at before the error field, and the error
\* field before the status. A response that is not 200, and a 200 whose
\* error is not empty, whatever status and details they carry, is the last
\* poll and ends the run as a generic failure: no finding annotation, the
\* line "::error::action failed!" alone, exit code 1.
C12_CodeThenErrorThenStatus ==
    \A i \in 1..Len(replies) :
        ((replies[i].kind = "http" /\ replies[i].code # 200)
            \/ ErrorAnswer(replies[i])) =>
            /\ i = Len(replies)
            /\ pc = "done"
            /\ out = <<FailedLine>>
            /\ exit = <<1>>

\* A 200 with a non-empty error, status "failed" and a finding: nothing but
\* the generic failure line was printed.
C12_Witness ==
    /\ pc = "done"
    /\ Len(replies) > 0
    /\ ErrorAnswer(Last(replies))
    /\ "status" \in DOMAIN Last(replies).body
    /\ Last(replies).body.status = "failed"
    /\ Len(DetailsOf(Last(replies))) = 1
    /\ out = <<FailedLine>>

----------------------------------------------------------------------------
(* C13 *)

\* C13: the deadline is set once, to the start time (0) plus timeout_seconds,
\* and every poll begins strictly before it. The deadline is looked at at
\* loop entry alone: a sleep lasts its full delay_seconds whether or not it
\* crosses the deadline, and a poll step never ends in the deadline's
\* timeout (it prints the timeout line only for urlopen's own TimeoutError).
C13_DeadlineOnlyAtLoopEntry ==
    /\ [](pc \in {"loop", "sleep"} => deadline = ctx.input_timeout_seconds)
    /\ [](polls > 0 => pollStart < deadline)
    /\ [][pc # "main" => deadline' = deadline]_vars
    /\ [][pc = "sleep" => (pc' = "loop" /\ now' = now + DEFAULT_DELAY_SECONDS)]_vars
    /\ [][polls' = polls + 1 =>
            /\ pollStart' = now
            /\ pc' \in {"sleep", "done"}
            /\ (pc' = "done" /\ Last(out') = TimeoutLine) =>
                    (Last(replies').kind = "net"
                        /\ Last(replies').exc = "TimeoutError")]_vars

\* The second sleep began before the deadline and ended after it; the run
\* then timed out.
C13_Witness ==
    /\ DeadlineElapsedPending
    /\ sleeps = 2
    /\ now - DEFAULT_DELAY_SECONDS < deadline
    /\ now > deadline

----------------------------------------------------------------------------
(* C14 *)

PendingCount(q) == Cardinality({i \in 1..Len(q) : PendingAnswer(q[i])})

\* C14: every poll but the last was answered pending; one sleep was begun
\* per pending answer and none after any other reply, so that exactly one
\* sleep lies between two consecutive polls; and every sleep lasts the same
\* delay_seconds.
C14_OneFixedSleepBetweenPolls ==
    /\ [](\A i \in 1..(Len(replies) - 1) : PendingAnswer(replies[i]))
    /\ [](sleeps = PendingCount(replies) - (IF pc = "sleep" THEN 1 ELSE 0))
    /\ [][polls' = polls + 1 => sleeps = polls]_vars
    /\ [][sleeps' = sleeps + 1 =>
            (now' = now + DEFAULT_DELAY_SECONDS /\ polls' = polls)]_vars
    /\ [][pc = "done" => (sleeps' = sleeps /\ polls' = polls)]_vars

\* Three polls with two sleeps between them, the last one resolved.
C14_Witness ==
    /\ pc = "done"
    /\ polls = 3
    /\ sleeps = 2
    /\ ResolvedAnswer(Last(replies))

----------------------------------------------------------------------------
(* C15 *)

\* C15 as stated: when the run ends in the deadline's timeout, the timeout
\* is raised at most delay_seconds after the deadline.
C15_OvershootAtMostOneDelay ==
    DeadlineElapsedPending => now - deadline <= DEFAULT_DELAY_SECONDS

\* C15 amended: when the run ends in the deadline's timeout after at least
\* one poll, the timeout is raised at or after the deadline and less than
\* delay_seconds plus the duration of the last poll after it; without a poll
\* (timeout_seconds <= 0) it is raised at the start, -timeout_seconds after
\* the deadline.
C15_OvershootBelowDelayPlusPoll ==
    DeadlineElapsedPending =>
        IF polls = 0
        THEN /\ ctx.input_timeout_seconds <= 0
             /\ now - deadline = -ctx.input_timeout_seconds
        ELSE LET dur == (now - pollStart) - DEFAULT_DELAY_SECONDS
             IN  /\ dur \in 0..MaxPollDur
                 /\ 0 <= now - deadline
                 /\ now - deadline < DEFAULT_DELAY_SECONDS + dur

\* A timeout raised more than delay_seconds after the deadline: the last
\* poll began before the deadline and took two seconds.
C15_Witness ==
    /\ DeadlineElapsedPending
    /\ polls > 0
    /\ now - deadline > DEFAULT_DELAY_SECONDS

----------------------------------------------------------------------------
(* C16 *)

\* C16: after print_secrets, the j-th line printed is the line of the j-th
\* finding: a notice when is_valid is IS_SECRET_VALID_UNSPECIFIED or
\* IS_SECRET_VALID_NO, an error when it is IS_SECRET_VALID_YES, a warning for
\* every other value, with that finding's file path, redacted value and type;
\* when every entry is a finding, every finding has its line.
C16_SeverityByIsValid ==
    pc # "print" =>
        /\ Len(out) <= Len(secrets)
        /\ \A j \in 1..Len(out) :
              LET s == secrets[j]
                  l == out[j]
              IN  /\ FindingKeys \subseteq DOMAIN s
                  /\ l.sev = IF s.is_valid \in {"IS_SECRET_VALID_UNSPECIFIED",
                                                "IS_SECRET_VALID_NO"}
                             THEN "notice"
                             ELSE IF s.is_valid = "IS_SECRET_VALID_YES"
                             THEN "error"
                             ELSE "warning"
                  /\ l.text = CASE l.sev = "notice" -> "found invalid secret"
                                [] l.sev = "error" -> "found valid secret"
                                [] l.sev = "warning" -> "found unknown secret"
                  /\ l.file = s.file_path
                  /\ l.value = s.secret_value
                  /\ l.type = s.secret_type
        /\ (\A j \in 1..Len(secrets) : FindingKeys \subseteq DOMAIN secrets[j])
              => pc = "returned" /\ Len(out) = Len(secrets)

\* print_secrets returned from findings of all three severities' kinds: an
\* unspecified one and one whose is_valid is none of the three named values.
C16_Witness ==
    /\ pc = "returned"
    /\ Len(secrets) = 2
    /\ secrets[1].is_valid = "IS_SECRET_VALID_UNSPECIFIED"
    /\ secrets[2].is_valid = None
    /\ Len(out) = 2

----------------------------------------------------------------------------
(* C17 *)

\* C17: the number of polls is at most ceil(timeout_seconds / delay_seconds)
\* whatever the webhook answers; with timeout_seconds <= 0 no poll is made,
\* nothing is sent, and the run ends in the timeout.
C17_PollsBoundedByConfiguration ==
    /\ polls = Len(replies)
    /\ DEFAULT_DELAY_SECONDS > 0
    /\ IF ctx = <<>>
       THEN polls = 0
       ELSE LET t == ctx.input_timeout_seconds
            IN  IF t <= 0
                THEN /\ polls = 0
                     /\ sent = {}
                     /\ pc = "done" => out = <<TimeoutLine>> /\ exit = <<1>>
                ELSE polls <= (t + DEFAULT_DELAY_SECONDS - 1)
                                 \div DEFAULT_DELAY_SECONDS

\* The bound attained with a timeout that is not a multiple of the delay:
\* timeout 5, delay 2, polls at 0, 2 and 4.
C17_Witness ==
    /\ ctx # <<>>
    /\ ctx.input_timeout_seconds = 5
    /\ polls = 3

\* No poll with a timeout that is not positive: the run timed out at once.
C17_WitnessNoPoll ==
    /\ ctx # <<>>
    /\ ctx.input_timeout_seconds <= 0
    /\ pc = "done"
    /\ polls = 0

----------------------------------------------------------------------------
(* C18 *)

\* C18 as stated: when the run has printed the clean-scan notice and ended
\* with exit code 0, no error-level finding annotation was printed before it.
C18_NoErrorFindingBeforeCleanNotice ==
    (pc = "done" /\ exit = <<0>> /\ Len(out) > 0 /\ Last(out) = NoSecretsLine)
        => \A j \in 1..Len(out) :
              ~(IsFindingLine(out[j]) /\ out[j].sev = "error")

\* C18 amended: when the clean-scan notice has been printed, the run has ended
\* with exit code 0, the last answer's status is neither "failed" nor
\* "just_created", the notice is the last line and the only run-level one, and
\* the lines before it are the answer's findings, at error level exactly for
\* the entries whose is_valid is IS_SECRET_VALID_YES.
C18_CleanNoticeAfterAnySeverity ==
    (\E j \in 1..Len(out) : out[j] = NoSecretsLine) =>
        /\ pc = "done"
        /\ exit = <<0>>
        /\ Len(replies) > 0
        /\ CleanAnswer(Last(replies))
        /\ AllWellFormed(Last(replies))
        /\ out = FindingLines(out) \o <<NoSecretsLine>>
        /\ Len(out) = Len(DetailsOf(Last(replies))) + 1
        /\ \A j \in 1..Len(DetailsOf(Last(replies))) :
              (out[j].sev = "error")
                  <=> (DetailsOf(Last(replies))[j].is_valid = "IS_SECRET_VALID_YES")

\* The clean-scan notice printed after an error-level finding annotation.
C18_Witness ==
    /\ pc = "done"
    /\ exit = <<0>>
    /\ Len(out) > 1
    /\ Last(out) = NoSecretsLine
    /\ \E j \in 1..(Len(out) - 1) :
          IsFindingLine(out[j]) /\ out[j].sev = "error"

----------------------------------------------------------------------------
(* C19 *)

\* The annotation the run's outcome calls for: the clean-scan notice for
\* success, the timeout annotation when the deadline elapsed with every poll
\* answered pending, the valid-secrets annotation when valid secrets were
\* found, the generic failure annotation for any other failure.
OutcomeLine ==
    IF Len(replies) > 0 /\ CleanAnswer(Last(replies)) /\ AllWellFormed(Last(replies))
    THEN NoSecretsLine
    ELSE IF DeadlineElapsedPending THEN TimeoutLine
    ELSE IF ValidSecretsFound THEN FoundValidLine
    ELSE FailedLine

\* Nothing is printed before the run ends; a run that ended printed finding
\* annotations, all taken from the last answer, then one run-level annotation,
\* the one of its outcome.
OneRunLevelLineNamesOutcome ==
    /\ pc # "done" => out = <<>>
    /\ pc = "done" =>
          /\ Len(out) > 0
          /\ ~IsFindingLine(Last(out))
          /\ \A j \in 1..(Len(out) - 1) : IsFindingLine(out[j])
          /\ Len(out) > 1 =>
                /\ Len(replies) > 0
                /\ ResolvedAnswer(Last(replies))
                /\ LinesMatch(out, DetailsOf(Last(replies)),
                              GoodPrefix(Last(replies)))
          /\ Last(out) = OutcomeLine

\* C19 as stated: every run prints exactly one run-level annotation, as its
\* last line, naming its outcome (success, timeout, valid secrets found, any
\* other failure); finding annotations come from the final answer only.
C19_OneRunLevelLineNamesOutcome ==
    pc \in {"main", "loop", "sleep", "done"} /\ OneRunLevelLineNamesOutcome

\* The same, apart from runs whose last poll met a network timeout.
C19_ApartFromNetworkTimeout ==
    (\A i \in 1..Len(replies) :
        ~(replies[i].kind = "net" /\ replies[i].exc = "TimeoutError"))
        => OneRunLevelLineNamesOutcome

====
